---- MODULE Spec2Model ----
(***************************************************************************)
(* Model of the Graph Skills orchestrator (orchestrator.ts, types.ts):     *)
(* GraphOrchestrator.execute with its scheduler topologicalSort, the       *)
(* dependency-input propagation prepareDependencyInputs and the result     *)
(* compilation.  One run of execute is a state machine whose steps are the *)
(* synchronous stretches of the async function between two awaits of the   *)
(* backend (invokeSubagent).  The backend is an external collaborator: it  *)
(* resolves with any output value or rejects with a fault.                 *)
(*                                                                         *)
(* Not modelled: timestamps, durations, token estimates and console        *)
(* output; none of them influences control flow.                           *)
(***************************************************************************)
EXTENDS Integers, Sequences, FiniteSets, TLC

VARIABLES graph, pc, raised, executionOrder, cursor, outputs,
          completedNodes, failedNodes, nodeResults, invocations, responses,
          result, other, routing, comparison

vars == <<graph, pc, raised, executionOrder, cursor, outputs,
          completedNodes, failedNodes, nodeResults, invocations, responses,
          result, other, routing, comparison>>

(***************************************************************************)
(* Bounds of the model.                                                    *)
(***************************************************************************)
\* total number of dependency entries in a graph of the enumerated family
MaxEdges == 4
\* backend outputs are the values 0..MaxValue (0 is a falsy JavaScript value)
MaxValue == 1
\* number of words of a task description handed to the router
MaxWords == 2
\* token counts handed to the cost comparison are 0..MaxTokens, and the two
\* counts selectModel uses
MaxTokens == 5

(***************************************************************************)
(* Values.                                                                 *)
(***************************************************************************)
\* JavaScript null / undefined, in the position of an output value
Null == -1
Undefined == -2
\* an absent optional string (Graph.entry, NodeResult.error, no exception)
NoEntry == "undefined"
NoError == "none"

OutputValues == 0 .. MaxValue
\* messages of the faults a backend invocation can reject with
BackendFaults == {"backend fault"}

EmptyMap == [x \in {} |-> x]

Range(s) == {s[i] : i \in 1 .. Len(s)}

(***************************************************************************)
(* Graphs (types.ts: GraphNode, Graph).  A graph is a record               *)
(*   keys  : the node ids in declaration order (Object.keys(graph.nodes)), *)
(*   nodes : id -> [dependencies : Seq(id), output : key],                 *)
(*   entry : an id, or NoEntry.                                            *)
(* An absent dependencies field and an empty list behave the same in every *)
(* place the code reads it, so both are the empty sequence.                *)
(***************************************************************************)
GraphNode(deps, out) == [dependencies |-> deps, output |-> out]

Graph(keys, nodes, entry) == [keys |-> keys, nodes |-> nodes, entry |-> entry]

\* the id used for a dependency (or entry) that is no key of the node map
MissingId == "zz"

FamilyIds == {"a", "b", "c"}
FamilyKeys == <<"a", "b", "c">>

\* sequences without repetition over S of length n
RECURSIVE SeqsOfLen(_, _)
SeqsOfLen(S, n) ==
  IF n = 0 THEN {<<>>}
  ELSE UNION {{Append(s, x) : x \in S \ Range(s)} : s \in SeqsOfLen(S, n - 1)}

DepChoices == FamilyIds \cup {MissingId}

DepSeqs == UNION {SeqsOfLen(DepChoices, n) : n \in 0 .. MaxEdges}

\* per-node output keys: all distinct, or b and c writing the same key
OutputSchemes ==
  { [a |-> "ka", b |-> "kb", c |-> "kc"],
    [a |-> "ka", b |-> "kb", c |-> "kb"] }

FamilyDeps ==
  {d \in [FamilyIds -> DepSeqs] :
     Len(d["a"]) + Len(d["b"]) + Len(d["c"]) <= MaxEdges}

FamilyGraphs ==
  { Graph(FamilyKeys, [n \in FamilyIds |-> GraphNode(d[n], o[n])], e) :
      d \in FamilyDeps, o \in OutputSchemes, e \in FamilyIds \cup {NoEntry} }

\* the graphs of the documented scenarios
ScanPlanGraph ==
  Graph(<<"scan", "plan">>,
        [scan |-> GraphNode(<<>>, "s"), plan |-> GraphNode(<<"scan">>, "p")],
        "scan")

CycleXYGraph ==
  Graph(<<"x", "y">>,
        [x |-> GraphNode(<<"y">>, "ox"), y |-> GraphNode(<<"x">>, "oy")],
        "x")

ChainABCGraph ==
  Graph(<<"A", "B", "C">>,
        [A |-> GraphNode(<<>>, "oa"), B |-> GraphNode(<<"A">>, "ob"),
         C |-> GraphNode(<<"B">>, "oc")],
        "C")

DiamondGraph ==
  Graph(<<"top", "left", "right", "bottom">>,
        [top |-> GraphNode(<<>>, "ot"),
         left |-> GraphNode(<<"top">>, "ol"),
         right |-> GraphNode(<<"top">>, "or"),
         bottom |-> GraphNode(<<"left", "right">>, "ob")],
        "bottom")

\* example-repo-summary.ts
repoSummaryGraph ==
  Graph(<<"scan_structure", "analyze_architecture", "generate_summary">>,
        [scan_structure |-> GraphNode(<<>>, "structure_data"),
         analyze_architecture |->
           GraphNode(<<"scan_structure">>, "architecture_analysis"),
         generate_summary |->
           GraphNode(<<"scan_structure", "analyze_architecture">>,
                     "final_summary")],
        "scan_structure")

\* a declared entry that is no key of the node map
BadEntryGraph ==
  Graph(<<"a">>, [a |-> GraphNode(<<>>, "ka")], MissingId)

ScenarioGraphs ==
  {ScanPlanGraph, CycleXYGraph, ChainABCGraph, DiamondGraph, repoSummaryGraph,
   BadEntryGraph}

Graphs == FamilyGraphs \cup ScenarioGraphs

NodeIdsOf(g) == DOMAIN g.nodes

(***************************************************************************)
(* Scheduler: GraphOrchestrator.topologicalSort.                           *)
(* The traversal state is [visited, order, error]; a thrown exception is   *)
(* error # NoError, after which nothing else is done.                      *)
(***************************************************************************)
\* entry points: the declared entry, else every node without dependencies
entryNodesEveryNode(g) == g.keys
entryNodesFirstOnly(g) ==
  IF g.entry # NoEntry
    THEN <<g.entry>>
    ELSE LET NoDeps(nodeId) == Len(g.nodes[nodeId].dependencies) = 0
         IN  SubSeq(SelectSeq(g.keys, NoDeps), 1, 1)
entryNodes(g) ==
  IF g.entry # NoEntry
    THEN <<g.entry>>
    ELSE LET NoDeps(nodeId) == Len(g.nodes[nodeId].dependencies) = 0
         IN  SelectSeq(g.keys, NoDeps)

\* order.push(nodeId)
pushOrderFront(order, nodeId) == <<nodeId>> \o order
pushOrder(order, nodeId) == Append(order, nodeId)

\* throw new Error(`Dependency not found: ${depId} (required by ${nodeId})`)
dependencyIgnored(st, depId, nodeId) == st
dependencyScheduled(st, depId, nodeId) ==
  [st EXCEPT !.order = Append(@, depId)]
dependencyNotFound(st, depId, nodeId) ==
  [st EXCEPT !.error = "Dependency not found"]

RECURSIVE visit(_, _, _)
RECURSIVE visitDependencies(_, _, _, _)

\* the recursive closure visit of topologicalSort
visit(g, st, nodeId) ==
  IF st.error # NoError THEN st
  ELSE IF nodeId \in st.visited THEN st
  ELSE LET marked == [st EXCEPT !.visited = @ \cup {nodeId}]
       IN  IF nodeId \notin NodeIdsOf(g)
             \* graph.nodes[nodeId] is undefined: node.dependencies throws
             THEN [marked EXCEPT !.error = "TypeError"]
             ELSE LET after == visitDependencies(g, marked, nodeId, 1)
                  IN  IF after.error # NoError THEN after
                      ELSE [after EXCEPT !.order = pushOrder(@, nodeId)]

\* for (const depId of node.dependencies), from position i on
visitDependencies(g, st, nodeId, i) ==
  LET deps == g.nodes[nodeId].dependencies
  IN  IF st.error # NoError \/ i > Len(deps) THEN st
      ELSE IF deps[i] \notin NodeIdsOf(g)
             THEN dependencyNotFound(st, deps[i], nodeId)
             ELSE visitDependencies(g, visit(g, st, deps[i]), nodeId, i + 1)

RECURSIVE visitAll(_, _, _, _)
\* for (const entryNode of entryNodes) visit(entryNode)
visitAll(g, st, entries, i) ==
  IF i > Len(entries) THEN st
  ELSE visitAll(g, visit(g, st, entries[i]), entries, i + 1)

\* unreachable nodes are reported with console.warn only
topologicalSortRejectsUnreachable(g) ==
  LET st == visitAll(g, [visited |-> {}, order |-> <<>>, error |-> NoError],
                     entryNodes(g), 1)
  IN  IF st.error = NoError /\ NodeIdsOf(g) \ st.visited # {}
        THEN [st EXCEPT !.error = "Unreachable nodes"]
        ELSE st
topologicalSort(g) ==
  visitAll(g, [visited |-> {}, order |-> <<>>, error |-> NoError],
           entryNodes(g), 1)

(***************************************************************************)
(* Execution context (types.ts: ExecutionContext).  context.outputs is a   *)
(* JavaScript object: its entries are kept in insertion order, a write to  *)
(* an existing key replaces the value in place.                            *)
(***************************************************************************)
HasKey(outs, key) == \E i \in 1 .. Len(outs) : outs[i].key = key

\* context.outputs[key]
lookupOutput(outs, key) ==
  IF HasKey(outs, key)
    THEN outs[CHOOSE i \in 1 .. Len(outs) : outs[i].key = key].value
    ELSE Undefined

\* context.outputs[key] = value
writeOutputKeepFirst(outs, key, value) ==
  IF HasKey(outs, key) THEN outs
  ELSE Append(outs, [key |-> key, value |-> value])
writeOutput(outs, key, value) ==
  IF HasKey(outs, key)
    THEN [i \in 1 .. Len(outs) |->
            IF outs[i].key = key THEN [key |-> key, value |-> value]
            ELSE outs[i]]
    ELSE Append(outs, [key |-> key, value |-> value])

\* the callback (_, key) => key === depId of prepareDependencyInputs: find
\* passes the array index as second argument, a number, and depId is a
\* string; strict equality of a number and a string is false
indexEqualsDepId(index, depId) == FALSE

\* Object.values(context.outputs).find((_, key) => key === depId)
findDepNode(outs, depId) ==
  LET hits == {i \in 1 .. Len(outs) : indexEqualsDepId(i - 1, depId)}
  IN  IF hits = {} THEN Undefined
      ELSE outs[CHOOSE i \in hits : \A j \in hits : i <= j].value

\* GraphOrchestrator.prepareDependencyInputs
prepareDependencyInputsWholeContext(node, outs) ==
  [key \in {outs[i].key : i \in 1 .. Len(outs)} |-> lookupOutput(outs, key)]
prepareDependencyInputs(node, outs) ==
  LET found == {depId \in Range(node.dependencies) :
                  findDepNode(outs, depId) # Undefined}
  IN  [depId \in found |-> findDepNode(outs, depId)]

(***************************************************************************)
(* Node results (types.ts: NodeResult) as built by executeNode.            *)
(***************************************************************************)
nodeSuccess(nodeId, output) ==
  [nodeId |-> nodeId, success |-> TRUE, output |-> output, error |-> NoError]

nodeFailureSilent(nodeId, message) ==
  [nodeId |-> nodeId, success |-> FALSE, output |-> Null, error |-> NoError]
nodeFailure(nodeId, message) ==
  [nodeId |-> nodeId, success |-> FALSE, output |-> Null, error |-> message]

\* nodeResults[nodeId] = result
recordResult(results, nodeId, r) ==
  [n \in DOMAIN results \cup {nodeId} |->
     IF n = nodeId THEN r ELSE results[n]]

\* the request handed to invokeSubagent for a node (executeNode, up to the
\* await): the node and the dependency-input map built from the context
subagentCall(nodeId, node, outs) ==
  [nodeId |-> nodeId, nodeInput |-> prepareDependencyInputs(node, outs)]

(***************************************************************************)
(* Result compilation (execute, "Compile final result").                   *)
(***************************************************************************)
\* context.outputs[lastNode.output] || null
extractFinalOutputLastWritten(g, outs, order) ==
  IF Len(outs) = 0 THEN Null ELSE outs[Len(outs)].value
extractFinalOutput(g, outs, order) ==
  IF Len(order) = 0 THEN Null
  ELSE LET v == lookupOutput(outs, g.nodes[order[Len(order)]].output)
       IN  IF v = Undefined \/ v = 0 THEN Null ELSE v

compileResultAlwaysSuccess(g, order, outs, completed, failed, results) ==
  [success |-> TRUE,
   output |-> extractFinalOutput(g, outs, order),
   nodeResults |-> results,
   metrics |-> [nodeCount |-> Len(order),
                successCount |-> Len(completed),
                failureCount |-> Len(failed)]]
compileResultAllCounted(g, order, outs, completed, failed, results) ==
  [success |-> Len(failed) = 0,
   output |-> extractFinalOutput(g, outs, order),
   nodeResults |-> results,
   metrics |-> [nodeCount |-> Len(order),
                successCount |-> Len(order),
                failureCount |-> Len(failed)]]
compileResult(g, order, outs, completed, failed, results) ==
  [success |-> Len(failed) = 0,
   output |-> extractFinalOutput(g, outs, order),
   nodeResults |-> results,
   metrics |-> [nodeCount |-> Len(order),
                successCount |-> Len(completed),
                failureCount |-> Len(failed)]]

\* the value of result before execute has returned
NoResult == compileResult(BadEntryGraph, <<>>, <<>>, <<>>, <<>>, EmptyMap)

(***************************************************************************)
(* Model router (model-router.ts).  A task description is the sequence of  *)
(* its characters, so that toLowerCase and includes are computed as        *)
(* JavaScript computes them.                                               *)
(***************************************************************************)
UpperCase ==
  <<"A", "B", "C", "D", "E", "F", "G", "H", "I", "J", "K", "L", "M",
    "N", "O", "P", "Q", "R", "S", "T", "U", "V", "W", "X", "Y", "Z">>
LowerCase ==
  <<"a", "b", "c", "d", "e", "f", "g", "h", "i", "j", "k", "l", "m",
    "n", "o", "p", "q", "r", "s", "t", "u", "v", "w", "x", "y", "z">>

\* String.prototype.toLowerCase
toLowerCase(text) ==
  [i \in 1 .. Len(text) |->
     IF \E k \in 1 .. 26 : UpperCase[k] = text[i]
       THEN LowerCase[CHOOSE k \in 1 .. 26 : UpperCase[k] = text[i]]
       ELSE text[i]]

\* String.prototype.includes
includes(text, word) ==
  \E i \in 1 .. Len(text) - Len(word) + 1 :
    SubSeq(text, i, i + Len(word) - 1) = word

\* the keywords selectModelByHeuristics looks for
W_scan == <<"s", "c", "a", "n">>
W_explore == <<"e", "x", "p", "l", "o", "r", "e">>
W_find == <<"f", "i", "n", "d">>
W_identify == <<"i", "d", "e", "n", "t", "i", "f", "y">>
W_count == <<"c", "o", "u", "n", "t">>
W_list == <<"l", "i", "s", "t">>
W_analyze == <<"a", "n", "a", "l", "y", "z", "e">>
W_understand == <<"u", "n", "d", "e", "r", "s", "t", "a", "n", "d">>
W_architecture == <<"a", "r", "c", "h", "i", "t", "e", "c", "t", "u", "r", "e">>
W_design == <<"d", "e", "s", "i", "g", "n">>
W_pattern == <<"p", "a", "t", "t", "e", "r", "n">>
W_generate == <<"g", "e", "n", "e", "r", "a", "t", "e">>
W_create == <<"c", "r", "e", "a", "t", "e">>
W_write == <<"w", "r", "i", "t", "e">>
W_compile == <<"c", "o", "m", "p", "i", "l", "e">>

\* the words a task description of the model is made of
Vocabulary ==
  {<<"S", "c", "a", "n">>,
   <<"f", "i", "n", "d">>,
   <<"a", "n", "a", "l", "y", "z", "e">>,
   <<"d", "e", "s", "i", "g", "n">>,
   <<"w", "r", "i", "t", "e">>,
   <<"e", "n", "c", "o", "u", "n", "t", "e", "r", "i", "n", "g">>,
   <<"r", "e", "v", "i", "e", "w">>,
   <<"t", "h", "e">>}

RECURSIVE TextsOfWords(_)
\* the texts of n words, separated by single spaces
TextsOfWords(n) ==
  IF n = 0 THEN {<<>>}
  ELSE IF n = 1 THEN Vocabulary
  ELSE {t \o <<" ">> \o w : t \in TextsOfWords(n - 1), w \in Vocabulary}

TaskTexts == UNION {TextsOfWords(n) : n \in 0 .. MaxWords}

(***************************************************************************)
(* The task descriptions of example-repo-summary.ts, character by          *)
(* character.                                                              *)
(***************************************************************************)
\* the task of scan_structure
ScanStructureTask ==
  <<"S", "c", "a", "n", " ", "t", "h", "e", " ", "r", "e", "p", "o", "s",
    "i", "t", "o", "r", "y", " ", "s", "t", "r", "u", "c", "t", "u", "r",
    "e", ".", " ", "C", "o", "u", "n", "t", " ", "f", "i", "l", "e", "s",
    ",", " ", "i", "d", "e", "n", "t", "i", "f", "y", " ", "l", "a", "n",
    "g", "u", "a", "g", "e", "s", ",", " ", "f", "i", "n", "d", " ", "k",
    "e", "y", " ", "f", "i", "l", "e", "s", " ", "(", "R", "E", "A", "D",
    "M", "E", ",", " ", "p", "a", "c", "k", "a", "g", "e", ".", "j", "s",
    "o", "n", ",", " ", "e", "t", "c", ".", ")", ".", " ", "R", "e", "t",
    "u", "r", "n", " ", "a", " ", "s", "t", "r", "u", "c", "t", "u", "r",
    "e", "d", " ", "s", "u", "m", "m", "a", "r", "y", " ", "o", "f", " ",
    "w", "h", "a", "t", " ", "y", "o", "u", " ", "f", "i", "n", "d", ".">>

\* the task of analyze_architecture
AnalyzeArchitectureTask ==
  <<"B", "a", "s", "e", "d", " ", "o", "n", " ", "t", "h", "e", " ", "r",
    "e", "p", "o", "s", "i", "t", "o", "r", "y", " ", "s", "t", "r", "u",
    "c", "t", "u", "r", "e", ",", " ", "a", "n", "a", "l", "y", "z", "e",
    " ", "t", "h", "e", " ", "a", "r", "c", "h", "i", "t", "e", "c", "t",
    "u", "r", "e", ".", " ", "I", "d", "e", "n", "t", "i", "f", "y", ":",
    " ", "1", ")", " ", "F", "r", "a", "m", "e", "w", "o", "r", "k", "/",
    "t", "e", "c", "h", "n", "o", "l", "o", "g", "y", " ", "s", "t", "a",
    "c", "k", ",", " ", "2", ")", " ", "P", "r", "o", "j", "e", "c", "t",
    " ", "t", "y", "p", "e", " ", "(", "l", "i", "b", "r", "a", "r", "y",
    "/", "a", "p", "p", "/", "t", "o", "o", "l", ")", ",", " ", "3", ")",
    " ", "K", "e", "y", " ", "d", "e", "p", "e", "n", "d", "e", "n", "c",
    "i", "e", "s", ",", " ", "4", ")", " ", "A", "r", "c", "h", "i", "t",
    "e", "c", "t", "u", "r", "e", " ", "p", "a", "t", "t", "e", "r", "n",
    "s", " ", "u", "s", "e", "d", ".", " ", "P", "r", "o", "v", "i", "d",
    "e", " ", "d", "e", "t", "a", "i", "l", "e", "d", " ", "a", "n", "a",
    "l", "y", "s", "i", "s", ".">>

\* the task of generate_summary
GenerateSummaryTask ==
  <<"C", "r", "e", "a", "t", "e", " ", "a", " ", "c", "o", "n", "c", "i",
    "s", "e", " ", "m", "a", "r", "k", "d", "o", "w", "n", " ", "s", "u",
    "m", "m", "a", "r", "y", " ", "o", "f", " ", "t", "h", "e", " ", "r",
    "e", "p", "o", "s", "i", "t", "o", "r", "y", ".", " ", "I", "n", "c",
    "l", "u", "d", "e", ":", " ", "1", ")", " ", "O", "v", "e", "r", "v",
    "i", "e", "w", ",", " ", "2", ")", " ", "T", "e", "c", "h", " ", "s",
    "t", "a", "c", "k", ",", " ", "3", ")", " ", "A", "r", "c", "h", "i",
    "t", "e", "c", "t", "u", "r", "e", " ", "h", "i", "g", "h", "l", "i",
    "g", "h", "t", "s", ",", " ", "4", ")", " ", "K", "e", "y", " ", "f",
    "i", "l", "e", "s", "/", "d", "i", "r", "e", "c", "t", "o", "r", "i",
    "e", "s", ".", " ", "M", "a", "k", "e", " ", "i", "t", " ", "u", "s",
    "e", "f", "u", "l", " ", "f", "o", "r", " ", "a", " ", "d", "e", "v",
    "e", "l", "o", "p", "e", "r", " ", "e", "n", "c", "o", "u", "n", "t",
    "e", "r", "i", "n", "g", " ", "t", "h", "i", "s", " ", "r", "e", "p",
    "o", " ", "f", "o", "r", " ", "t", "h", "e", " ", "f", "i", "r", "s",
    "t", " ", "t", "i", "m", "e", ".">>

SubagentTypes == {"explore", "plan", "general-purpose"}
ClaudeModels == {"haiku", "sonnet", "opus"}
\* an absent GraphNode.model, an absent context.complexity
NoModel == "undefined"
NoComplexity == "undefined"

\* MODEL_CONFIGS: the prices per million tokens, in cents
MODEL_CONFIGS ==
  [haiku  |-> [costPer1MInputTokens |-> 80, costPer1MOutputTokens |-> 400],
   sonnet |-> [costPer1MInputTokens |-> 1500,
               costPer1MOutputTokens |-> 7500],
   opus   |-> [costPer1MInputTokens |-> 7500,
               costPer1MOutputTokens |-> 37500]]

DEFAULT_MODELS_PlanOpus ==
  [t \in SubagentTypes |->
     IF t = "explore" THEN "haiku"
     ELSE IF t = "plan" THEN "opus" ELSE "sonnet"]
DEFAULT_MODELS ==
  [t \in SubagentTypes |->
     IF t = "explore" THEN "haiku" ELSE "sonnet"]

\* the threshold of "context.fileCount > 50"
FileCountThreshold == 50

\* ModelRouter.estimateCost, in units of 10^-8 dollars
estimateCostOutputRefund(model, inputTokens, outputTokens) ==
  inputTokens * MODEL_CONFIGS[model].costPer1MInputTokens
    - outputTokens * MODEL_CONFIGS[model].costPer1MOutputTokens
estimateCost(model, inputTokens, outputTokens) ==
  inputTokens * MODEL_CONFIGS[model].costPer1MInputTokens
    + outputTokens * MODEL_CONFIGS[model].costPer1MOutputTokens

\* Math.abs, Math.max
Abs(x) == IF x < 0 THEN 0 - x ELSE x
Max(x, y) == IF x >= y THEN x ELSE y

\* ModelRouter.compareCost; savingsPercent is 100 times the fraction
\* numerator / denominator, kept as the two terms (0 / 0 is NaN)
compareCost(model1, model2, inputTokens, outputTokens) ==
  LET cost1 == estimateCost(model1, inputTokens, outputTokens)
      cost2 == estimateCost(model2, inputTokens, outputTokens)
  IN  [model1Cost |-> cost1,
       model2Cost |-> cost2,
       savings |-> Abs(cost1 - cost2),
       savingsPercent |-> [numerator |-> Abs(cost1 - cost2),
                           denominator |-> Max(cost1, cost2)]]

\* the token counts handed to compareCost; 10000 and 2000 are the counts
\* selectModel estimates with
TokenCounts == (0 .. MaxTokens) \cup {2000, 10000}

\* the value of the comparison before compareCost has returned
NoCostComparison == compareCost("haiku", "haiku", 0, 0)

\* the cost comparison at rest
NoComparison ==
  [model1 |-> "haiku", model2 |-> "haiku", inputTokens |-> 0,
   outputTokens |-> 0, costs |-> NoCostComparison, returned |-> FALSE]

\* context.fileCount && context.fileCount > 50
largeFileCount(context) ==
  /\ context.fileCount # Undefined
  /\ context.fileCount # 0
  /\ context.fileCount > FileCountThreshold

\* ModelRouter.selectModelByHeuristics
selectModelByHeuristicsComplexityFirst(node, context) ==
  LET task == toLowerCase(node.task)
  IN  IF \/ includes(task, W_scan) \/ includes(task, W_explore)
         \/ includes(task, W_find) \/ includes(task, W_identify)
         \/ includes(task, W_count) \/ includes(task, W_list)
        THEN "haiku"
      ELSE IF \/ includes(task, W_analyze) \/ includes(task, W_understand)
              \/ includes(task, W_architecture) \/ includes(task, W_design)
              \/ includes(task, W_pattern)
        THEN "sonnet"
      ELSE IF \/ includes(task, W_generate) \/ includes(task, W_create)
              \/ includes(task, W_write) \/ includes(task, W_compile)
        THEN "sonnet"
      ELSE IF context.complexity = "high" THEN "sonnet"
      ELSE IF largeFileCount(context) THEN "haiku"
      ELSE DEFAULT_MODELS[node.agent]
selectModelByHeuristicsReasoningFirst(node, context) ==
  LET task == toLowerCase(node.task)
  IN  IF \/ includes(task, W_analyze) \/ includes(task, W_understand)
         \/ includes(task, W_architecture) \/ includes(task, W_design)
         \/ includes(task, W_pattern)
        THEN "sonnet"
      ELSE IF \/ includes(task, W_scan) \/ includes(task, W_explore)
              \/ includes(task, W_find) \/ includes(task, W_identify)
              \/ includes(task, W_count) \/ includes(task, W_list)
        THEN "haiku"
      ELSE IF \/ includes(task, W_generate) \/ includes(task, W_create)
              \/ includes(task, W_write) \/ includes(task, W_compile)
        THEN "sonnet"
      ELSE IF largeFileCount(context) THEN "haiku"
      ELSE IF context.complexity = "high" THEN "sonnet"
      ELSE DEFAULT_MODELS[node.agent]
selectModelByHeuristicsNoDefault(node, context) ==
  LET task == toLowerCase(node.task)
  IN  IF \/ includes(task, W_scan) \/ includes(task, W_explore)
         \/ includes(task, W_find) \/ includes(task, W_identify)
         \/ includes(task, W_count) \/ includes(task, W_list)
        THEN "haiku"
      ELSE IF \/ includes(task, W_analyze) \/ includes(task, W_understand)
              \/ includes(task, W_architecture) \/ includes(task, W_design)
              \/ includes(task, W_pattern)
        THEN "sonnet"
      ELSE IF \/ includes(task, W_generate) \/ includes(task, W_create)
              \/ includes(task, W_write) \/ includes(task, W_compile)
        THEN "sonnet"
      ELSE IF largeFileCount(context) THEN "haiku"
      ELSE "sonnet"
selectModelByHeuristics(node, context) ==
  LET task == toLowerCase(node.task)
  IN  IF \/ includes(task, W_scan) \/ includes(task, W_explore)
         \/ includes(task, W_find) \/ includes(task, W_identify)
         \/ includes(task, W_count) \/ includes(task, W_list)
        THEN "haiku"
      ELSE IF \/ includes(task, W_analyze) \/ includes(task, W_understand)
              \/ includes(task, W_architecture) \/ includes(task, W_design)
              \/ includes(task, W_pattern)
        THEN "sonnet"
      ELSE IF \/ includes(task, W_generate) \/ includes(task, W_create)
              \/ includes(task, W_write) \/ includes(task, W_compile)
        THEN "sonnet"
      ELSE IF largeFileCount(context) THEN "haiku"
      ELSE IF context.complexity = "high" THEN "sonnet"
      ELSE DEFAULT_MODELS[node.agent]

\* one entry of the reasons array; count is the number a template string
\* embeds, Undefined when there is none
Reason(text, count) == [text |-> text, count |-> count]

\* ModelRouter.explainSelection; the result is the array that join('; ')
\* turns into one string
explainSelection(node, context, model) ==
  IF model = "haiku"
    THEN <<Reason("Optimized for fast, cost-effective execution", Undefined)>>
         \o (IF largeFileCount(context)
               THEN <<Reason("Large file count benefits from efficient scanning",
                             context.fileCount)>>
               ELSE <<>>)
  ELSE IF model = "sonnet"
    THEN <<Reason("Requires sophisticated reasoning and analysis",
                  Undefined)>>
         \o (IF context.complexity = "high"
               THEN <<Reason("High complexity task needs advanced capabilities",
                             Undefined)>>
               ELSE <<>>)
  ELSE IF model = "opus"
    THEN <<Reason("Highest quality required for critical task", Undefined)>>
  ELSE <<>>

\* the justification of an explicit override
ExplicitlySpecified ==
  <<Reason("Explicitly specified in node definition", Undefined)>>

\* ModelRouter.selectModel
selectModelHeuristicsFirst(node, context) ==
  LET model == selectModelByHeuristics(node, context)
  IN  IF node.model # NoModel /\ model = DEFAULT_MODELS[node.agent]
        THEN [agent |-> node.agent, model |-> node.model,
              reasoning |-> ExplicitlySpecified,
              estimatedCost |-> estimateCost(node.model, 10000, 2000)]
        ELSE [agent |-> node.agent, model |-> model,
              reasoning |-> explainSelection(node, context, model),
              estimatedCost |-> estimateCost(model, 10000, 2000)]
selectModel(node, context) ==
  IF node.model # NoModel
    THEN [agent |-> node.agent, model |-> node.model,
          reasoning |-> ExplicitlySpecified,
          estimatedCost |-> estimateCost(node.model, 10000, 2000)]
    ELSE LET model == selectModelByHeuristics(node, context)
         IN  [agent |-> node.agent, model |-> model,
              reasoning |-> explainSelection(node, context, model),
              estimatedCost |-> estimateCost(model, 10000, 2000)]

\* the phrases estimateComplexity looks for
P_analyzeArchitecture == W_analyze \o <<" ">> \o W_architecture
P_deepAnalysis ==
  <<"d", "e", "e", "p", " ", "a", "n", "a", "l", "y", "s", "i", "s">>
P_complexPattern ==
  <<"c", "o", "m", "p", "l", "e", "x", " ">> \o W_pattern

\* GraphOrchestrator.estimateComplexity
estimateComplexity(task) ==
  LET taskLower == toLowerCase(task)
  IN  IF \/ includes(taskLower, P_analyzeArchitecture)
         \/ includes(taskLower, P_deepAnalysis)
         \/ includes(taskLower, P_complexPattern)
         \/ includes(taskLower, W_design)
        THEN "high"
      ELSE IF \/ includes(taskLower, W_scan) \/ includes(taskLower, W_list)
              \/ includes(taskLower, W_count) \/ includes(taskLower, W_find)
        THEN "low"
      ELSE "medium"

\* the runtime context executeNode hands to the router for a node
routingContext(node) ==
  [fileCount |-> Undefined, complexity |-> estimateComplexity(node.task)]

\* the nodes of repoSummaryGraph as the router sees them
ScanStructureNode ==
  [agent |-> "explore", task |-> ScanStructureTask, model |-> NoModel]
AnalyzeArchitectureNode ==
  [agent |-> "plan", task |-> AnalyzeArchitectureTask, model |-> "sonnet"]
GenerateSummaryNode ==
  [agent |-> "general-purpose", task |-> GenerateSummaryTask,
   model |-> NoModel]

ExampleNodes ==
  {ScanStructureNode, AnalyzeArchitectureNode, GenerateSummaryNode}

\* the nodes and runtime contexts handed to the router
RouterNodes ==
  [agent : SubagentTypes, task : TaskTexts,
   model : ClaudeModels \cup {NoModel}]
    \cup ExampleNodes

RouterContexts ==
  [fileCount : {Undefined, 0, FileCountThreshold, FileCountThreshold + 1},
   complexity : {NoComplexity, "low", "medium", "high"}]

\* the value of the decision before selectModel has returned
NoDecision ==
  [agent |-> "none", model |-> "none", reasoning |-> <<>>,
   estimatedCost |-> 0]

\* the router at rest
NoRouting ==
  [node |-> [agent |-> "explore", task |-> <<>>, model |-> NoModel],
   context |-> [fileCount |-> Undefined, complexity |-> NoComplexity],
   decision |-> NoDecision, returned |-> FALSE]

(***************************************************************************)
(* The run.  pc is the position of execute:                                *)
(*   "pending"  execute has not been called,                               *)
(*   "awaiting" suspended at await invokeSubagent for executionOrder[cursor]*)
(*   "done"     returned result,                                           *)
(*   "raised"   left by an exception (the returned promise is rejected).   *)
(***************************************************************************)
\* the fields of one call of execute, as a record
NewRun ==
  [pc |-> "pending", raised |-> NoError, executionOrder |-> <<>>,
   cursor |-> 0, outputs |-> <<>>, completedNodes |-> <<>>,
   failedNodes |-> <<>>, nodeResults |-> EmptyMap, invocations |-> <<>>,
   responses |-> <<>>, result |-> NoResult]

\* the call of execute the variables pc .. result describe
thisRun ==
  [pc |-> pc, raised |-> raised, executionOrder |-> executionOrder,
   cursor |-> cursor, outputs |-> outputs, completedNodes |-> completedNodes,
   failedNodes |-> failedNodes, nodeResults |-> nodeResults,
   invocations |-> invocations, responses |-> responses, result |-> result]

\* the execution context held by a call of execute
contextOf(r) ==
  [outputs |-> r.outputs, completedNodes |-> r.completedNodes,
   failedNodes |-> r.failedNodes]

\* const context: ExecutionContext = { outputs: {}, ... }: every call builds
\* its context as a fresh object literal in a local constant; the context of
\* a call already in progress on the same orchestrator (existing) does not
\* enter it, the orchestrator keeps no context in a field
reuseContext(existing) == existing
newContext(existing) ==
  [outputs |-> <<>>, completedNodes |-> <<>>, failedNodes |-> <<>>]

\* the for-of loop over executionOrder moves on to the next position
skipNode(i) == i + 2
nextNode(i) == i + 1

\* await this.invokeSubagent(...): the call is handed to the backend
issueInvocationTwice(invs, call) == Append(Append(invs, call), call)
issueInvocation(invs, call) == Append(invs, call)

\* break: the position after the loop "for (const nodeId of executionOrder)"
continueAfterFailure(order, i) == i + 1
breakLoop(order, i) == Len(order) + 1

\* The loop of execute from position next on, up to the next await or to the
\* return: either the node at next is handed to the backend, or the loop is
\* over and the result is compiled.  graph.nodes[nodeId] is read outside the
\* try block, so an id that is no key of the node map leaves execute with a
\* TypeError.
RunFromNeverReturns(g, r, next) ==
  IF next <= Len(r.executionOrder)
    THEN LET nodeId == r.executionOrder[next]
         IN  IF nodeId \notin NodeIdsOf(g)
               THEN [r EXCEPT !.pc = "raised", !.raised = "TypeError",
                              !.cursor = next]
               ELSE [r EXCEPT !.pc = "awaiting", !.cursor = next,
                              !.invocations =
                                issueInvocation(@,
                                  subagentCall(nodeId, g.nodes[nodeId],
                                               r.outputs))]
    ELSE [r EXCEPT !.pc = "running", !.cursor = next]
RunFrom(g, r, next) ==
  IF next <= Len(r.executionOrder)
    THEN LET nodeId == r.executionOrder[next]
         IN  IF nodeId \notin NodeIdsOf(g)
               THEN [r EXCEPT !.pc = "raised", !.raised = "TypeError",
                              !.cursor = next]
               ELSE [r EXCEPT !.pc = "awaiting", !.cursor = next,
                              !.invocations =
                                issueInvocation(@,
                                  subagentCall(nodeId, g.nodes[nodeId],
                                               r.outputs))]
    ELSE [r EXCEPT !.pc = "done", !.cursor = next,
                   !.result =
                     compileResult(g, r.executionOrder, r.outputs,
                                   r.completedNodes, r.failedNodes,
                                   r.nodeResults)]

\* execute is called: the context is created, the order is computed, and
\* the loop runs up to the first await
startExecute(g, r, existing) ==
  LET context == newContext(existing)
      sorted == topologicalSort(g)
  IN  IF sorted.error # NoError
        THEN [r EXCEPT !.pc = "raised", !.raised = sorted.error]
        ELSE RunFrom(g,
                     [r EXCEPT !.outputs = context.outputs,
                               !.completedNodes = context.completedNodes,
                               !.failedNodes = context.failedNodes,
                               !.executionOrder = sorted.order],
                     1)

\* invokeSubagent resolves with output: executeNode returns a success,
\* execute stores it and goes on with the next node
onResolved(g, r, output) ==
  LET nodeId == r.executionOrder[r.cursor]
      node == g.nodes[nodeId]
  IN  RunFrom(g,
              [r EXCEPT !.outputs = writeOutput(@, node.output, output),
                        !.completedNodes = Append(@, nodeId),
                        !.nodeResults =
                          recordResult(@, nodeId,
                                       nodeSuccess(nodeId, output)),
                        !.responses =
                          Append(@, [nodeId |-> nodeId, ok |-> TRUE,
                                     output |-> output, error |-> NoError])],
              nextNode(r.cursor))

\* invokeSubagent rejects: the catch of executeNode turns the fault into a
\* failure result, execute records it and breaks out of the loop
onRejectedAlsoCompleted(g, r, message) ==
  LET nodeId == r.executionOrder[r.cursor]
  IN  RunFrom(g,
              [r EXCEPT !.failedNodes = Append(@, nodeId),
                        !.completedNodes = Append(@, nodeId),
                        !.nodeResults =
                          recordResult(@, nodeId,
                                       nodeFailure(nodeId, message)),
                        !.responses =
                          Append(@, [nodeId |-> nodeId, ok |-> FALSE,
                                     output |-> Null, error |-> message])],
              breakLoop(r.executionOrder, r.cursor))
onRejected(g, r, message) ==
  LET nodeId == r.executionOrder[r.cursor]
  IN  RunFrom(g,
              [r EXCEPT !.failedNodes = Append(@, nodeId),
                        !.nodeResults =
                          recordResult(@, nodeId,
                                       nodeFailure(nodeId, message)),
                        !.responses =
                          Append(@, [nodeId |-> nodeId, ok |-> FALSE,
                                     output |-> Null, error |-> message])],
              breakLoop(r.executionOrder, r.cursor))

\* the call described by pc .. result moves to r
RunBecomes(r) ==
  /\ pc' = r.pc
  /\ raised' = r.raised
  /\ executionOrder' = r.executionOrder
  /\ cursor' = r.cursor
  /\ outputs' = r.outputs
  /\ completedNodes' = r.completedNodes
  /\ failedNodes' = r.failedNodes
  /\ nodeResults' = r.nodeResults
  /\ invocations' = r.invocations
  /\ responses' = r.responses
  /\ result' = r.result

Init ==
  /\ graph \in Graphs
  /\ pc = "pending"
  /\ raised = NoError
  /\ executionOrder = <<>>
  /\ cursor = 0
  /\ outputs = <<>>
  /\ completedNodes = <<>>
  /\ failedNodes = <<>>
  /\ nodeResults = EmptyMap
  /\ invocations = <<>>
  /\ responses = <<>>
  /\ result = NoResult
  /\ other = NewRun
  /\ routing = NoRouting
  /\ comparison = NoComparison

Execute ==
  /\ pc = "pending"
  /\ RunBecomes(startExecute(graph, thisRun, contextOf(other)))
  /\ UNCHANGED <<graph, other, routing, comparison>>

BackendResolves(output) ==
  /\ pc = "awaiting"
  /\ RunBecomes(onResolved(graph, thisRun, output))
  /\ UNCHANGED <<graph, other, routing, comparison>>

BackendRejects(message) ==
  /\ pc = "awaiting"
  /\ RunBecomes(onRejected(graph, thisRun, message))
  /\ UNCHANGED <<graph, other, routing, comparison>>

Next ==
  \/ Execute
  \/ \E output \in OutputValues : BackendResolves(output)
  \/ \E message \in BackendFaults : BackendRejects(message)

Spec == Init /\ [][Next]_vars

\* the backend settles the pending invocation, either way
BackendAnswers ==
  \/ \E output \in OutputValues : BackendResolves(output)
  \/ \E message \in BackendFaults : BackendRejects(message)

\* The run under the scheduling of the JavaScript event loop: a call of
\* execute runs its synchronous stretch to the first await, and every
\* backend invocation is eventually settled (the proviso of the termination
\* property).  Its graphs are the scenarios and the family graphs in which
\* every node has one dependency, so that every traversal runs into a
\* cycle.
LiveGraphs ==
  ScenarioGraphs \cup
    {g \in FamilyGraphs :
       \A n \in FamilyIds :
         /\ Len(g.nodes[n].dependencies) = 1
         /\ g.nodes[n].dependencies[1] \in FamilyIds}

InitLive ==
  /\ Init
  /\ graph \in LiveGraphs

LiveSpec ==
  /\ InitLive
  /\ [][Next]_vars
  /\ WF_vars(Execute)
  /\ WF_vars(BackendAnswers)

(***************************************************************************)
(* Two calls of execute on the same orchestrator and the same graph, their *)
(* steps interleaved at the awaits.  The second call is the record other.  *)
(***************************************************************************)
\* graphs of the two-call specification: the scenarios, and the family
\* graphs in which only c has dependencies
TwoRunGraphs ==
  ScenarioGraphs \cup
    {g \in FamilyGraphs :
       g.nodes["a"].dependencies = <<>> /\ g.nodes["b"].dependencies = <<>>}

InitTwoRuns ==
  /\ Init
  /\ graph \in TwoRunGraphs

OtherExecute ==
  /\ other.pc = "pending"
  /\ other' = startExecute(graph, other, contextOf(thisRun))
  /\ UNCHANGED <<graph, pc, raised, executionOrder, cursor, outputs,
                 completedNodes, failedNodes, nodeResults, invocations,
                 responses, result, routing, comparison>>

OtherBackendResolves(output) ==
  /\ other.pc = "awaiting"
  /\ other' = onResolved(graph, other, output)
  /\ UNCHANGED <<graph, pc, raised, executionOrder, cursor, outputs,
                 completedNodes, failedNodes, nodeResults, invocations,
                 responses, result, routing, comparison>>

OtherBackendRejects(message) ==
  /\ other.pc = "awaiting"
  /\ other' = onRejected(graph, other, message)
  /\ UNCHANGED <<graph, pc, raised, executionOrder, cursor, outputs,
                 completedNodes, failedNodes, nodeResults, invocations,
                 responses, result, routing, comparison>>

NextTwoRuns ==
  \/ Execute
  \/ \E output \in OutputValues : BackendResolves(output)
  \/ \E message \in BackendFaults : BackendRejects(message)
  \/ OtherExecute
  \/ \E output \in OutputValues : OtherBackendResolves(output)
  \/ \E message \in BackendFaults : OtherBackendRejects(message)

TwoRunSpec == InitTwoRuns /\ [][NextTwoRuns]_vars

(***************************************************************************)
(* The router on its own: selectModel is called once with a node and a     *)
(* runtime context.                                                        *)
(***************************************************************************)
InitRouter ==
  /\ graph = repoSummaryGraph
  /\ pc = "pending"
  /\ raised = NoError
  /\ executionOrder = <<>>
  /\ cursor = 0
  /\ outputs = <<>>
  /\ completedNodes = <<>>
  /\ failedNodes = <<>>
  /\ nodeResults = EmptyMap
  /\ invocations = <<>>
  /\ responses = <<>>
  /\ result = NoResult
  /\ other = NewRun
  /\ routing \in [node : RouterNodes, context : RouterContexts,
                   decision : {NoDecision}, returned : {FALSE}]
  /\ comparison = NoComparison

SelectModel ==
  /\ ~routing.returned
  /\ routing' = [routing EXCEPT
                   !.decision = selectModel(routing.node, routing.context),
                   !.returned = TRUE]
  /\ UNCHANGED <<graph, pc, raised, executionOrder, cursor, outputs,
                 completedNodes, failedNodes, nodeResults, invocations,
                 responses, result, other, comparison>>

NextRouter == SelectModel

RouterSpec == InitRouter /\ [][NextRouter]_vars

(***************************************************************************)
(* The cost comparison on its own: compareCost is called once with two     *)
(* tiers and a pair of token counts.                                       *)
(***************************************************************************)
InitCost ==
  /\ graph = repoSummaryGraph
  /\ pc = "pending"
  /\ raised = NoError
  /\ executionOrder = <<>>
  /\ cursor = 0
  /\ outputs = <<>>
  /\ completedNodes = <<>>
  /\ failedNodes = <<>>
  /\ nodeResults = EmptyMap
  /\ invocations = <<>>
  /\ responses = <<>>
  /\ result = NoResult
  /\ other = NewRun
  /\ routing = NoRouting
  /\ comparison \in [model1 : ClaudeModels, model2 : ClaudeModels,
                      inputTokens : TokenCounts, outputTokens : TokenCounts,
                      costs : {NoCostComparison}, returned : {FALSE}]

CompareCost ==
  /\ ~comparison.returned
  /\ comparison' = [comparison EXCEPT
                      !.costs = compareCost(comparison.model1,
                                            comparison.model2,
                                            comparison.inputTokens,
                                            comparison.outputTokens),
                      !.returned = TRUE]
  /\ UNCHANGED <<graph, pc, raised, executionOrder, cursor, outputs,
                 completedNodes, failedNodes, nodeResults, invocations,
                 responses, result, other, routing>>

NextCost == CompareCost

CostSpec == InitCost /\ [][NextCost]_vars

TypeOK ==
  /\ pc \in {"pending", "awaiting", "done", "raised"}
  /\ cursor \in 0 .. Len(executionOrder) + 1
  /\ Len(failedNodes) <= 1

(***************************************************************************)
(* Graph-theoretic notions the properties are stated with, defined on the  *)
(* dependency relation of the graph and not through the scheduler.         *)
(***************************************************************************)
DependenciesOf(g, n) == Range(g.nodes[n].dependencies)

RECURSIVE DependencyClosure(_, _)
\* S and everything S transitively depends on, among the nodes of g
DependencyClosure(g, S) ==
  LET T == S \cup (UNION {DependenciesOf(g, n) : n \in S} \cap NodeIdsOf(g))
  IN  IF T = S THEN S ELSE DependencyClosure(g, T)

OnCycle(g, n) ==
  n \in DependencyClosure(g, DependenciesOf(g, n) \cap NodeIdsOf(g))

Acyclic(g) == \A n \in NodeIdsOf(g) : ~OnCycle(g, n)

AllDependenciesResolve(g) ==
  \A n \in NodeIdsOf(g) : DependenciesOf(g, n) \subseteq NodeIdsOf(g)

EntryPoints(g) ==
  IF g.entry # NoEntry THEN {g.entry}
  ELSE {n \in NodeIdsOf(g) : g.nodes[n].dependencies = <<>>}

\* the nodes reachable from an entry point along dependencies
ReachableNodes(g) == DependencyClosure(g, EntryPoints(g) \cap NodeIdsOf(g))

\* the scheduler has returned an order
Scheduled == pc \in {"awaiting", "done"}

FailedResponses == {k \in 1 .. Len(responses) : ~responses[k].ok}
OkResponses == {k \in 1 .. Len(responses) : responses[k].ok}

(***************************************************************************)
(* Properties.                                                             *)
(***************************************************************************)

\* C1: for an acyclic graph whose dependencies all resolve, every dependency
\* of every node of the returned order is in the order at a strictly
\* earlier position.
C1_DependenciesFirst ==
  (Scheduled /\ Acyclic(graph) /\ AllDependenciesResolve(graph)) =>
    \A i \in 1 .. Len(executionOrder) :
      \A d \in DependenciesOf(graph, executionOrder[i]) :
        \E j \in 1 .. i - 1 : executionOrder[j] = d

C1_Witness ==
  /\ Scheduled /\ Acyclic(graph) /\ AllDependenciesResolve(graph)
  /\ Len(executionOrder) = 3
  /\ Len(graph.nodes[executionOrder[3]].dependencies) = 2

\* C2: for a graph with a dependency cycle reachable from an entry point the
\* scheduler fails instead of returning an order, and no node is invoked.
C2_CycleRejected ==
  (pc # "pending" /\ \E n \in ReachableNodes(graph) : OnCycle(graph, n)) =>
    (pc = "raised" /\ invocations = <<>>)

\* C3: a node invoked after its dependency D completed receives a
\* dependency-input map whose entry for D is the value D's execution stored.
C3_DependencyInputDelivered ==
  \A k \in 1 .. Len(invocations) :
    \A j \in 1 .. Len(responses) :
      ( /\ j < k
        /\ responses[j].ok
        /\ responses[j].nodeId
             \in DependenciesOf(graph, invocations[k].nodeId) ) =>
        ( /\ responses[j].nodeId \in DOMAIN invocations[k].nodeInput
          /\ invocations[k].nodeInput[responses[j].nodeId]
               = responses[j].output )

\* C4: fail-fast: the invocation that failed is the last invocation of the
\* run; no invocation is issued after it, for any later node of the order.
C4_FailFast ==
  \A k \in FailedResponses : Len(invocations) = k

\* a run halted by a failure while a node that does not depend on the failed
\* one was still to come
C4_Witness ==
  /\ pc = "done"
  /\ FailedResponses # {}
  /\ \E i \in 1 .. Len(executionOrder) :
       /\ i > Len(invocations)
       /\ failedNodes[1] \notin DependenciesOf(graph, executionOrder[i])

\* C5: when the k-th ordered node fails, the returned nodeResults holds the
\* k-1 earlier nodes as successes with their outputs, the failing node as a
\* failure with its error message, and nothing else; success is false.
C5_PartialResults ==
  pc = "done" =>
    \A k \in FailedResponses :
      /\ DOMAIN result.nodeResults = {executionOrder[i] : i \in 1 .. k}
      /\ \A i \in 1 .. k - 1 :
           /\ result.nodeResults[executionOrder[i]].success
           /\ result.nodeResults[executionOrder[i]].output
                = responses[i].output
           /\ result.nodeResults[executionOrder[i]].output \in OutputValues
      /\ ~result.nodeResults[executionOrder[k]].success
      /\ result.nodeResults[executionOrder[k]].error \in BackendFaults
      /\ result.nodeResults[executionOrder[k]].error = responses[k].error
      /\ ~result.success

\* the chain A, B, C with B failing
C5_Witness ==
  /\ graph = ChainABCGraph
  /\ pc = "done"
  /\ failedNodes = <<"B">>
  /\ DOMAIN result.nodeResults = {"A", "B"}

\* C6: for {scan, plan (depends on scan)} with declared entry scan the
\* scheduler returns the order [scan, plan].
C6_ScanPlanOrder ==
  (graph = ScanPlanGraph /\ pc # "pending") =>
    (Scheduled /\ executionOrder = <<"scan", "plan">>)

\* C7: for an acyclic graph the returned order contains every node reachable
\* from an entry point and contains no node twice.
C7_ReachableOnce ==
  (Scheduled /\ Acyclic(graph)) =>
    /\ ReachableNodes(graph) \subseteq Range(executionOrder)
    /\ \A i, j \in 1 .. Len(executionOrder) :
         executionOrder[i] = executionOrder[j] => i = j

\* the diamond: top is reached through left and through right
C7_Witness ==
  /\ graph = DiamondGraph
  /\ Scheduled
  /\ Len(executionOrder) = 4

\* C8 as stated: whenever some node of the graph declares a dependency id
\* that is no key of the node map, the scheduler fails.
C8_AnyMissingDependencyRejected ==
  (pc # "pending" /\ ~AllDependenciesResolve(graph)) => pc = "raised"

\* C8 amended: whenever a node reachable from an entry point along
\* dependencies declares a dependency id that is no key of the node map, the
\* scheduler fails with an error and returns no order.
C8_ReachableMissingDependencyRejected ==
  ( /\ pc # "pending"
    /\ \E n \in ReachableNodes(graph) :
         ~(DependenciesOf(graph, n) \subseteq NodeIdsOf(graph)) ) =>
    (pc = "raised" /\ raised # NoError /\ executionOrder = <<>>)

C8_Witness ==
  /\ pc = "raised"
  /\ raised = "Dependency not found"
  /\ graph.entry # NoEntry
  /\ Cardinality(ReachableNodes(graph)) >= 2

\* C9: a run that ends with a graph-definition error has issued no backend
\* invocation and written no output key.
C9_DefinitionErrorBeforeExecution ==
  pc = "raised" =>
    (invocations = <<>> /\ responses = <<>> /\ outputs = <<>>
       /\ completedNodes = <<>>)

C9_Witness ==
  /\ pc = "raised"
  /\ raised = "Dependency not found"
  /\ \E n \in NodeIdsOf(graph) : graph.nodes[n].dependencies = <<>>

\* C10 as stated: execute always ends by returning a GraphResult, for a
\* graph-definition error as well; on error success is false, the failing
\* node's message is carried and the metrics count the completed prefix.
C10_AlwaysReturnsResult ==
  pc \in {"done", "raised"} =>
    /\ pc = "done"
    /\ (topologicalSort(graph).error # NoError \/ FailedResponses # {}) =>
         ~result.success

\* C10 amended: a graph-definition error leaves execute as an exception and
\* no GraphResult is returned; every other call that ends returns a complete
\* GraphResult, which on a node failure has success = false, carries the
\* failing node's error message, and whose metrics count the completed
\* prefix.
C10_ResultOrException ==
  /\ pc = "raised" =>
       (topologicalSort(graph).error # NoError /\ result = NoResult)
  /\ pc = "done" =>
       /\ topologicalSort(graph).error = NoError
       /\ DOMAIN result.nodeResults
            = {responses[k].nodeId : k \in 1 .. Len(responses)}
       /\ result.metrics.nodeCount = Len(executionOrder)
       /\ result.metrics.successCount = Cardinality(OkResponses)
       /\ result.metrics.failureCount = Cardinality(FailedResponses)
       /\ \A k \in OkResponses :
            executionOrder[k] = responses[k].nodeId
       /\ \A k \in FailedResponses :
            /\ ~result.success
            /\ result.nodeResults[responses[k].nodeId].error
                 = responses[k].error
            /\ result.metrics.successCount = k - 1

\* a run that returned after two successes and a failure
C10_Witness ==
  /\ pc = "done"
  /\ FailedResponses # {}
  /\ result.metrics.successCount = 2
  /\ ~result.success

\* C11 as stated: GraphResult.output is the context value stored under the
\* output key of the last node of the execution order, none if that key was
\* never written or the order is empty.
C11_OutputOfLastOrderedNode ==
  pc = "done" =>
    result.output =
      (IF executionOrder = <<>> THEN Null
       ELSE LET key ==
                  graph.nodes[executionOrder[Len(executionOrder)]].output
            IN  IF HasKey(outputs, key) THEN lookupOutput(outputs, key)
                ELSE Null)

\* the last response that was a success
LastOk == CHOOSE k \in OkResponses : \A j \in OkResponses : j <= k

\* C12 as stated: in a run halted by a failure after at least one success,
\* output is the value produced by the last node that completed; it is none
\* only when no node produced a result.
C12_OutputOfLastCompletedNode ==
  (pc = "done" /\ FailedResponses # {}) =>
    /\ OkResponses # {} => result.output = responses[LastOk].output
    /\ result.output = Null => OkResponses = {}

\* C12 amended: in a run halted by a failure, output is derived from the
\* output key of the last node of the execution order, not from the last
\* completed node: it is none when no completed node wrote that key, and
\* otherwise it is none or the context value under that key.
C12_OutputKeyOfLastOrderedNode ==
  (pc = "done" /\ FailedResponses # {}) =>
    LET key == graph.nodes[executionOrder[Len(executionOrder)]].output
    IN  /\ ~HasKey(outputs, key) => result.output = Null
        /\ result.output # Null =>
             (HasKey(outputs, key)
                /\ result.output = lookupOutput(outputs, key))

\* a halted run whose last completed node produced a value while the key of
\* the last ordered node was never written
C12_Witness ==
  /\ pc = "done"
  /\ FailedResponses # {}
  /\ OkResponses # {}
  /\ responses[LastOk].output = 1
  /\ result.output = Null

\* C13: in every returned GraphResult success is true exactly when no node
\* failed (no failed response, failedNodes empty, failureCount = 0).
C13_SuccessIffNoFailure ==
  pc = "done" =>
    /\ result.success <=> FailedResponses = {}
    /\ result.success <=> failedNodes = <<>>
    /\ result.success <=> result.metrics.failureCount = 0

C13_Witness ==
  /\ pc = "done"
  /\ result.success
  /\ Len(responses) >= 2
  /\ result.metrics.failureCount = 0

\* C14: the backend invocations of a run are a prefix of the order computed
\* at run start, in that order, without gap or repetition, and the order
\* does not change once computed.
C14_InvocationsFollowOrder ==
  /\ [](/\ Len(invocations) <= Len(executionOrder)
        /\ \A k \in 1 .. Len(invocations) :
             invocations[k].nodeId = executionOrder[k])
  /\ [][pc # "pending" => executionOrder' = executionOrder]_vars

C14_Witness ==
  /\ pc = "awaiting"
  /\ Len(invocations) = 3
  /\ Len(executionOrder) = 3

\* C15: at most one backend invocation is in flight: an invocation is
\* outstanding exactly while execute is suspended on it, and every earlier
\* invocation has been answered.
C15_OneInvocationInFlight ==
  /\ Len(invocations) - Len(responses) = (IF pc = "awaiting" THEN 1 ELSE 0)
  /\ \A k \in 1 .. Len(responses) :
       responses[k].nodeId = invocations[k].nodeId

\* the second of two mutually independent nodes is invoked after the first
\* one's invocation has resolved
C15_Witness ==
  /\ pc = "awaiting"
  /\ Len(invocations) = 2
  /\ Len(responses) = 1
  /\ executionOrder[1] \notin DependenciesOf(graph, executionOrder[2])
  /\ executionOrder[2] \notin DependenciesOf(graph, executionOrder[1])

RECURSIVE ReplayOutputs(_, _, _)
\* the context outputs that the first k responses of a call produce
ReplayOutputs(g, resp, k) ==
  IF k = 0 THEN <<>>
  ELSE LET before == ReplayOutputs(g, resp, k - 1)
       IN  IF resp[k].ok
             THEN writeOutput(before, g.nodes[resp[k].nodeId].output,
                              resp[k].output)
             ELSE before

OkNodes(resp) ==
  LET IsOk(x) == x.ok
      picked == SelectSeq(resp, IsOk)
  IN  [k \in 1 .. Len(picked) |-> picked[k].nodeId]

FailedNodes(resp) ==
  LET IsFailed(x) == ~x.ok
      picked == SelectSeq(resp, IsFailed)
  IN  [k \in 1 .. Len(picked) |-> picked[k].nodeId]

\* the context and the result of call r hold what the backend answered to
\* r's own invocations, and nothing else
OwnContextOnly(g, r) ==
  /\ r.outputs = ReplayOutputs(g, r.responses, Len(r.responses))
  /\ r.completedNodes = OkNodes(r.responses)
  /\ r.failedNodes = FailedNodes(r.responses)
  /\ r.pc = "done" =>
       /\ DOMAIN r.result.nodeResults
            = {r.responses[k].nodeId : k \in 1 .. Len(r.responses)}
       /\ \A k \in 1 .. Len(r.responses) :
            r.result.nodeResults[r.responses[k].nodeId].output
              = r.responses[k].output
       /\ r.result.metrics.successCount = Len(OkNodes(r.responses))
       /\ r.result.metrics.failureCount = Len(FailedNodes(r.responses))

\* C16: when two calls of execute on one orchestrator and one graph
\* interleave, each call's context and result hold only what its own
\* invocations produced, and no step changes the graph.
C16_RunsIsolated ==
  /\ [](OwnContextOnly(graph, thisRun) /\ OwnContextOnly(graph, other))
  /\ [][graph' = graph]_vars

\* both calls in progress, with different outputs in their contexts
C16_Witness ==
  /\ pc = "awaiting"
  /\ other.pc = "awaiting"
  /\ outputs # <<>>
  /\ other.outputs # <<>>
  /\ outputs # other.outputs

(***************************************************************************)
(* Properties of the router.                                               *)
(***************************************************************************)
ExplorationKeywords ==
  {W_scan, W_explore, W_find, W_identify, W_count, W_list}
DeepReasoningKeywords ==
  {W_analyze, W_understand, W_architecture, W_design, W_pattern}
GenerationKeywords == {W_generate, W_create, W_write, W_compile}

\* the lower-cased task text contains a keyword of the family
Mentions(text, family) ==
  \E word \in family : includes(toLowerCase(text), word)

MentionsNoKeyword(text) ==
  /\ ~Mentions(text, ExplorationKeywords)
  /\ ~Mentions(text, DeepReasoningKeywords)
  /\ ~Mentions(text, GenerationKeywords)

ItemCountAboveThreshold(context) ==
  context.fileCount # Undefined /\ context.fileCount > 50

DefaultTier(agent) ==
  CASE agent = "explore" -> "haiku"
    [] agent = "plan" -> "sonnet"
    [] agent = "general-purpose" -> "sonnet"

\* the six rules in their priority, first match wins
RuleTable(node, context) ==
  CASE Mentions(node.task, ExplorationKeywords) -> "haiku"
    [] OTHER ->
  CASE Mentions(node.task, DeepReasoningKeywords) -> "sonnet"
    [] OTHER ->
  CASE Mentions(node.task, GenerationKeywords) -> "sonnet"
    [] OTHER ->
  CASE ItemCountAboveThreshold(context) -> "haiku"
    [] OTHER ->
  CASE context.complexity = "high" -> "sonnet"
    [] OTHER -> DefaultTier(node.agent)

\* C18: for a node with an explicit tier override the router returns that
\* tier, whatever the task text and the runtime context, with the
\* justification of an explicit specification and no heuristic explanation.
C18_OverrideWins ==
  (routing.returned /\ routing.node.model # NoModel) =>
    /\ routing.decision.model = routing.node.model
    /\ routing.decision.agent = routing.node.agent
    /\ routing.decision.reasoning
         = <<[text |-> "Explicitly specified in node definition",
              count |-> Undefined]>>

\* an override to sonnet on a task that mentions "scan"
C18_Witness ==
  /\ routing.returned
  /\ routing.node.model = "sonnet"
  /\ includes(toLowerCase(routing.node.task), W_scan)
  /\ routing.decision.model = "sonnet"

\* C19: for a node without override the chosen tier is the result of the
\* six rules evaluated in their fixed priority, first match wins.
C19_RulePriority ==
  (routing.returned /\ routing.node.model = NoModel) =>
    routing.decision.model = RuleTable(routing.node, routing.context)

\* no keyword, item count above the threshold and high complexity: rule 4
\* wins over rule 5
C19_Witness ==
  /\ routing.returned
  /\ routing.node.model = NoModel
  /\ MentionsNoKeyword(routing.node.task)
  /\ routing.context.fileCount = 51
  /\ routing.context.complexity = "high"
  /\ routing.node.agent = "plan"
  /\ routing.decision.model = "haiku"

\* C20 as stated: selectModel returns a decision for every node and
\* context, and a task text that matches no keyword family yields the
\* default tier of the node's agent kind (read for nodes without override).
C20_NoKeywordGivesDefault ==
  routing.returned =>
    /\ routing.decision.model \in ClaudeModels
    /\ (MentionsNoKeyword(routing.node.task)
          /\ routing.node.model = NoModel) =>
         routing.decision.model = DefaultTier(routing.node.agent)

\* C20 amended: selectModel returns a decision for every node and context,
\* and a task text that matches no keyword family yields the default tier
\* of the node's agent kind when the node has no override, the item count
\* is not above the threshold and the complexity signal is not high.
C20_NoKeywordNoSignalGivesDefault ==
  routing.returned =>
    /\ routing.decision.model \in ClaudeModels
    /\ routing.decision.agent = routing.node.agent
    /\ ( /\ MentionsNoKeyword(routing.node.task)
         /\ routing.node.model = NoModel
         /\ ~ItemCountAboveThreshold(routing.context)
         /\ routing.context.complexity # "high" ) =>
         routing.decision.model = DefaultTier(routing.node.agent)

C20_Witness ==
  /\ routing.returned
  /\ routing.node.model = NoModel
  /\ routing.node.task # <<>>
  /\ MentionsNoKeyword(routing.node.task)
  /\ routing.context.fileCount = 50
  /\ routing.context.complexity = "medium"
  /\ routing.node.agent = "explore"
  /\ routing.decision.model = "haiku"

\* the tier with the lowest prices of the price table
CheapestTier ==
  CHOOSE m \in ClaudeModels :
    \A n \in ClaudeModels :
      /\ MODEL_CONFIGS[m].costPer1MInputTokens
           <= MODEL_CONFIGS[n].costPer1MInputTokens
      /\ MODEL_CONFIGS[m].costPer1MOutputTokens
           <= MODEL_CONFIGS[n].costPer1MOutputTokens

\* C21: for a node without override whose task text contains an
\* exploration keyword the router selects the cheapest tier, for every agent
\* kind and every runtime context (high complexity included), and the
\* justification it returns starts with the low-cost explanation.
C21_ExplorationGivesCheapest ==
  ( /\ routing.returned
    /\ routing.node.model = NoModel
    /\ Mentions(routing.node.task, ExplorationKeywords) ) =>
    /\ routing.decision.model = CheapestTier
    /\ routing.decision.model = "haiku"
    /\ Len(routing.decision.reasoning) >= 1
    /\ routing.decision.reasoning[1]
         = [text |-> "Optimized for fast, cost-effective execution",
            count |-> Undefined]

\* "Scan design" for a plan agent under high complexity: an exploration
\* keyword next to a deep-reasoning keyword
C21_Witness ==
  /\ routing.returned
  /\ routing.node.model = NoModel
  /\ Mentions(routing.node.task, {W_scan})
  /\ Mentions(routing.node.task, DeepReasoningKeywords)
  /\ routing.node.agent = "plan"
  /\ routing.context.complexity = "high"
  /\ routing.decision.model = "haiku"

\* tier m is priced no higher than tier n in the price table
PricedNoHigher(m, n) ==
  /\ MODEL_CONFIGS[m].costPer1MInputTokens
       <= MODEL_CONFIGS[n].costPer1MInputTokens
  /\ MODEL_CONFIGS[m].costPer1MOutputTokens
       <= MODEL_CONFIGS[n].costPer1MOutputTokens

\* C22: cost monotonicity: the price table orders the tiers haiku, sonnet,
\* opus, and for every pair of non-negative token counts the estimated cost
\* of a tier priced no higher is never above the other tier's estimate.
C22_CostMonotone ==
  /\ PricedNoHigher("haiku", "sonnet") /\ PricedNoHigher("sonnet", "opus")
  /\ comparison.returned =>
       /\ PricedNoHigher(comparison.model1, comparison.model2) =>
            comparison.costs.model1Cost <= comparison.costs.model2Cost
       /\ PricedNoHigher(comparison.model2, comparison.model1) =>
            comparison.costs.model2Cost <= comparison.costs.model1Cost

\* haiku against opus with output tokens only
C22_Witness ==
  /\ comparison.returned
  /\ comparison.model1 = "haiku"
  /\ comparison.model2 = "opus"
  /\ comparison.inputTokens = 0
  /\ comparison.outputTokens > 0
  /\ comparison.costs.model1Cost < comparison.costs.model2Cost

\* C23: running the repository-summary example graph executes all three
\* nodes, in the order scan_structure, analyze_architecture,
\* generate_summary.
C23_RepoSummaryRunsAllThree ==
  (graph = repoSummaryGraph /\ pc # "pending") =>
    /\ Scheduled
    /\ executionOrder
         = <<"scan_structure", "analyze_architecture", "generate_summary">>
    /\ (pc = "done" /\ result.success) =>
         [k \in 1 .. Len(invocations) |-> invocations[k].nodeId]
           = <<"scan_structure", "analyze_architecture", "generate_summary">>

\* the nodes no entry point reaches along dependencies
UnreachableNodes(g) == NodeIdsOf(g) \ ReachableNodes(g)

\* the entry points exist and every node reachable from them declares
\* existing dependencies only
ReachablePartSound(g) ==
  /\ EntryPoints(g) \subseteq NodeIdsOf(g)
  /\ \A n \in ReachableNodes(g) : DependenciesOf(g, n) \subseteq NodeIdsOf(g)

\* C24: a node the traversal never visits is no failure: the scheduler
\* still returns an order, the node is not in the order, is never invoked
\* and is not counted in nodeCount (the run with such a node can finish with
\* success = true, see the witness).
C24_UnreachableOnlyWarned ==
  /\ (pc # "pending" /\ ReachablePartSound(graph)) => Scheduled
  /\ \A n \in UnreachableNodes(graph) :
       /\ n \notin Range(executionOrder)
       /\ \A k \in 1 .. Len(invocations) : invocations[k].nodeId # n
       /\ n \notin DOMAIN nodeResults
  /\ pc = "done" =>
       result.metrics.nodeCount = Cardinality(ReachableNodes(graph))

\* a run that finished with success while two nodes were never visited
C24_Witness ==
  /\ pc = "done"
  /\ result.success
  /\ Cardinality(UnreachableNodes(graph)) = 2
  /\ result.metrics.nodeCount = 1
  /\ Len(invocations) = 1

\* the successful responses of nodes that declare the output key
WritersOf(key) ==
  {k \in OkResponses : graph.nodes[responses[k].nodeId].output = key}

\* C25: when ordered nodes declare the same output key and complete, the
\* later one overwrites the earlier one's context entry without any error:
\* the context holds one entry per written key, and its value is the output
\* of the last completed node declaring that key.
C25_LaterWriterOverwrites ==
  /\ \A i, j \in 1 .. Len(outputs) :
       outputs[i].key = outputs[j].key => i = j
  /\ \A k \in OkResponses :
       HasKey(outputs, graph.nodes[responses[k].nodeId].output)
  /\ \A i \in 1 .. Len(outputs) :
       LET writers == WritersOf(outputs[i].key)
       IN  /\ writers # {}
           /\ outputs[i].value
                = responses[CHOOSE k \in writers :
                              \A j \in writers : j <= k].output
  /\ responses # <<>> => pc # "raised"
  /\ \A k \in OkResponses : completedNodes[k] = responses[k].nodeId

\* two nodes declaring one key completed with different outputs, and the run
\* returned
C25_Witness ==
  /\ pc = "done"
  /\ result.success
  /\ \E j, k \in OkResponses :
       /\ j < k
       /\ responses[j].nodeId # responses[k].nodeId
       /\ graph.nodes[responses[j].nodeId].output
            = graph.nodes[responses[k].nodeId].output
       /\ responses[j].output = 1
       /\ responses[k].output = 0
       /\ lookupOutput(outputs, graph.nodes[responses[k].nodeId].output) = 0

\* the nodes that completed before the k-th invocation was issued
CompletedBefore(k) ==
  {responses[j].nodeId : j \in {i \in OkResponses : i < k}}

\* C26: the dependency-input map built for a node has entries only for ids
\* of that node's own dependency list, each the output of that dependency
\* and never an output of a node it does not depend on; an id whose output
\* is not in the context is absent from the map, and the node is invoked
\* all the same.
C26_OnlyOwnDependencies ==
  \A k \in 1 .. Len(invocations) :
    LET nodeId == invocations[k].nodeId
        nodeInput == invocations[k].nodeInput
    IN  /\ DOMAIN nodeInput \subseteq DependenciesOf(graph, nodeId)
        /\ \A d \in DependenciesOf(graph, nodeId) :
             d \notin CompletedBefore(k) => d \notin DOMAIN nodeInput
        /\ \A d \in DOMAIN nodeInput :
             \E j \in OkResponses :
               /\ j < k
               /\ responses[j].nodeId = d
               /\ nodeInput[d] = responses[j].output

\* a node is invoked while the context holds the output of a node it does
\* not depend on and lacks the output of one it depends on
C26_Witness ==
  \E k \in 1 .. Len(invocations) :
    LET nodeId == invocations[k].nodeId
    IN  /\ CompletedBefore(k) \ DependenciesOf(graph, nodeId) # {}
        /\ DependenciesOf(graph, nodeId) \ CompletedBefore(k) # {}
        /\ Len(responses) >= k
        /\ responses[k].ok

\* execute has returned a result or has raised
Terminal == pc \in {"done", "raised"}

\* C27: provided every backend invocation is eventually settled, every run
\* reaches a terminal state (returned or raised, for graphs with cycles as
\* well), and once terminal it stays in that state and its context, its
\* records and its result are no longer changed.
C27_RunTerminates ==
  /\ <>Terminal
  /\ [][Terminal =>
          /\ pc' = pc /\ raised' = raised /\ result' = result
          /\ outputs' = outputs /\ completedNodes' = completedNodes
          /\ failedNodes' = failedNodes /\ nodeResults' = nodeResults
          /\ invocations' = invocations /\ responses' = responses]_vars

\* a run over a graph with a reachable dependency cycle has returned after
\* invoking the nodes of the cycle
C27_Witness ==
  /\ pc = "done"
  /\ \E n \in ReachableNodes(graph) : OnCycle(graph, n)
  /\ Len(responses) >= 2

\* C28: under the router's substring keyword matching the three nodes of
\* the repository-summary example are routed as the example documents:
\* scan_structure to haiku, analyze_architecture to sonnet and
\* generate_summary to sonnet.
C28_ExampleRoutedAsDocumented ==
  ( /\ routing.returned
    /\ routing.context = routingContext(routing.node) ) =>
    /\ routing.node = ScanStructureNode => routing.decision.model = "haiku"
    /\ routing.node = AnalyzeArchitectureNode =>
         routing.decision.model = "sonnet"
    /\ routing.node = GenerateSummaryNode =>
         routing.decision.model = "sonnet"

\* the nodes that declare no dependency
NodesWithoutDependencies(g) ==
  {n \in NodeIdsOf(g) : g.nodes[n].dependencies = <<>>}

C30_DependenciesCompletedAtInvocation ==
  \A k \in 1 .. Len(invocations) :
    DependenciesOf(graph, invocations[k].nodeId) \subseteq CompletedBefore(k)

\* s is a prefix of t
IsPrefix(s, t) == Len(s) <= Len(t) /\ SubSeq(t, 1, Len(s)) = s

\* C31: in every state of a run completedNodes followed by failedNodes is
\* a prefix of the computed order and failedNodes has at most one element;
\* in the returned result successCount + failureCount <= nodeCount,
\* failureCount <= 1, and success is true exactly when
\* successCount = nodeCount.
C31_ProgressIsPrefix ==
  /\ IsPrefix(completedNodes \o failedNodes, executionOrder)
  /\ Len(failedNodes) <= 1
  /\ pc = "done" =>
       /\ result.metrics.successCount + result.metrics.failureCount
            <= result.metrics.nodeCount
       /\ result.metrics.failureCount <= 1
       /\ result.success
            <=> result.metrics.successCount = result.metrics.nodeCount

\* a run of three ordered nodes halted by the failure of the second
C31_Witness ==
  /\ pc = "done"
  /\ Len(executionOrder) = 3
  /\ Len(completedNodes) = 1
  /\ Len(failedNodes) = 1
  /\ result.metrics.successCount + result.metrics.failureCount = 2
  /\ ~result.success

\* C32: the heuristics never select the opus tier: for a node without
\* override selectModel returns haiku or sonnet for every task text, agent
\* kind and runtime context; opus is returned only when the node itself
\* declares it as override.
C32_HeuristicsNeverOpus ==
  routing.returned =>
    /\ routing.node.model = NoModel =>
         routing.decision.model \in {"haiku", "sonnet"}
    /\ routing.decision.model = "opus" => routing.node.model = "opus"

\* the most demanding signals without an override: a plan agent, no
\* keyword in the task, high complexity
C32_Witness ==
  /\ routing.returned
  /\ routing.node.model = NoModel
  /\ routing.node.agent = "plan"
  /\ routing.node.task # <<>>
  /\ MentionsNoKeyword(routing.node.task)
  /\ routing.context.complexity = "high"
  /\ routing.context.fileCount = Undefined
  /\ routing.decision.model = "sonnet"

====
